---- MODULE Spec2Model ----
(***************************************************************************)
(* A model of the Uniswap v3 data-collection toolkit:                      *)
(*   - tick_hex_to_int            (transactions.py, mints_burns_swaps.py)  *)
(*   - get_liquidity_per_tick     (plot_liquidity.py)                      *)
(*   - get_pool_state             (pool_state.py)                          *)
(*   - fetch_uniswap_transactions_in_range and the Etherscan client        *)
(*                                (transactions.py, mints_burns_swaps.py,  *)
(*                                 utils/etherscan_requests.py)            *)
(*   - decode_uniswap_event and the per-event decoders                     *)
(*                                (transactions.py, mints_burns_swaps.py)  *)
(*   - get_mint_burn_swap_gas_estimates    (gas_estimates.py)              *)
(*   - get_relevant_positions              (relevant_positions.py)         *)
(*   - main of the seven scripts: argument parsing, the try block, the     *)
(*     exception handler and the exit status                               *)
(* Each command-line tool is a process of its own; one specification per   *)
(* tool family keeps the other families idle.                              *)
(***************************************************************************)
EXTENDS Integers, Sequences, FiniteSets, TLC

VARIABLES
    \* ---- tick decoding (tick_hex_to_int) ----
    tick_src,          \* <<t>> when the topic is the ABI encoding of int24 t, <<>> for a raw topic
    tick_hex,          \* the 64 hex characters of the topic, "0x" stripped, as digits 0..15
    tick,              \* <<n>> once tick_hex_to_int returned n, <<>> before
    \* ---- liquidity reconstruction and pool state ----
    tool,              \* "plot_liquidity", "pool_state", or "pool_state_then_plot"
                       \* (plot_liquidity.py on the report pool_state.py printed)
    initialized_ticks, \* plot_liquidity: the ticks mapping of the pool-state report;
                       \* pool_state: the pool's initialized ticks on chain
    current_tick,      \* the pool's slot0.tick
    tick_spacing,      \* the pool's tickSpacing
    liquidity,         \* the pool's current liquidity
    liq_out,           \* outcome of get_liquidity_per_tick
    pool_out,          \* outcome of get_pool_state
    pool_args,         \* get_pool_state's positions and surrounding_ticks arguments
    \* ---- transaction fetcher ----
    variant,           \* "transactions" or "mints_burns_swaps"
    explorer,          \* what the block explorer serves
    fetch_pc,          \* position of fetch_uniswap_transactions_in_range
    page,              \* the loop's page counter
    requested,         \* pages asked of get_pool_logs, in order
    logs,              \* accumulated raw logs
    fetch_out,         \* the returned {"data": decoded_transactions}["data"]
    \* ---- decode_uniswap_event on one log ----
    dec_module,        \* whose decode_uniswap_event: "transactions" or "mints_burns_swaps"
    raw_event,         \* the raw log entry
    decoded,           \* outcome of decode_uniswap_event
    \* ---- consumers of the decoded-events report ----
    consumer,          \* "gas_estimates" or "relevant_positions"
    decoded_events,    \* the report's "data" list
    report_out,        \* outcome of the consumer's function
    \* ---- the command-line entry points (main) ----
    cli_tool,          \* the script that is run
    cli_argv,          \* the command line: "valid", "missing" (a positional argument is
                       \* absent) or "unrecognized" (an argument the parser does not know)
    cli_fault,         \* what fails once the arguments are parsed: "none", "io", "processing"
    cli_folder,        \* combine_decoded_events: the data lists of the folder's report
                       \* files, in filename order
    cli_pc,            \* position of the process
    cli_exception,     \* <<name>> of the exception the try block raised, <<>> if none
    stdout,            \* documents written to standard output
    stderr,            \* what was written to standard error
    exit_status        \* the process's exit status

tick_vars  == <<tick_src, tick_hex, tick>>
liq_vars   == <<tool, initialized_ticks, current_tick, tick_spacing, liquidity, liq_out, pool_out,
                pool_args>>
fetch_vars == <<variant, explorer, fetch_pc, page, requested, logs, fetch_out>>
decode_vars == <<dec_module, raw_event, decoded>>
report_vars == <<consumer, decoded_events, report_out>>
cli_vars   == <<cli_tool, cli_argv, cli_fault, cli_folder, cli_pc, cli_exception,
                stdout, stderr, exit_status>>
vars       == <<tick_src, tick_hex, tick,
                tool, initialized_ticks, current_tick, tick_spacing, liquidity, liq_out, pool_out,
                pool_args,
                variant, explorer, fetch_pc, page, requested, logs, fetch_out,
                dec_module, raw_event, decoded,
                consumer, decoded_events, report_out,
                cli_tool, cli_argv, cli_fault, cli_folder, cli_pc, cli_exception,
                stdout, stderr, exit_status>>

MIN_TICK == -887272
MAX_TICK == 887272

(***************************************************************************)
(* Hexadecimal strings are sequences of digits 0..15, most significant     *)
(* first; 15 is the character "f".                                         *)
(***************************************************************************)

\* Python's int(s, 16) on a string of hex characters.
RECURSIVE HexToInt(_)
HexToInt(h) ==
    IF Len(h) = 0 THEN 0
    ELSE 16 * HexToInt(SubSeq(h, 1, Len(h) - 1)) + h[Len(h)]

\* The low n hex digits of a natural number, most significant first.
RECURSIVE IntToHex(_, _)
IntToHex(u, n) ==
    IF n = 0 THEN <<>>
    ELSE Append(IntToHex(u \div 16, n - 1), u % 16)

\* Solidity's ABI encoding of an int24 as a 32-byte topic: big-endian two's
\* complement, left-padded with f for negative values and with 0 otherwise.
TickIntToHex(t) ==
    IF t < 0
    THEN [i \in 1..58 |-> 15] \o IntToHex(16777216 + t, 6)
    ELSE [i \in 1..58 |-> 0] \o IntToHex(t, 6)

\* tick_hex[3] is the 4th character; tick_hex[len(tick_hex)-5:] the last five.
tick_hex_to_int(h) ==
    IF h[4] = 15
    THEN HexToInt(SubSeq(h, Len(h) - 4, Len(h))) - 8388608
    ELSE HexToInt(h)

(***************************************************************************)
(* Idle values of the tool families a specification does not run.          *)
(***************************************************************************)
TickIdle ==
    /\ tick_src = <<>>
    /\ tick_hex = <<>>
    /\ tick = <<>>

LiqIdle ==
    /\ tool = "none"
    /\ initialized_ticks = <<>>
    /\ current_tick = 0
    /\ tick_spacing = 1
    /\ liquidity = 0
    /\ liq_out = [status |-> "idle"]
    /\ pool_out = [status |-> "idle"]
    /\ pool_args = <<>>

FetchIdle ==
    /\ variant = "none"
    /\ explorer = [block_message |-> "OK", end_block_message |-> "OK",
                   pages |-> <<>>, end_signal |-> "null"]
    /\ fetch_pc = "idle"
    /\ page = 1
    /\ requested = <<>>
    /\ logs = <<>>
    /\ fetch_out = <<>>

DecodeIdle ==
    /\ dec_module = "none"
    /\ raw_event = <<>>
    /\ decoded = [status |-> "idle"]

ReportIdle ==
    /\ consumer = "none"
    /\ decoded_events = <<>>
    /\ report_out = [status |-> "idle"]

CliIdle ==
    /\ cli_tool = "none"
    /\ cli_argv = "valid"
    /\ cli_fault = "none"
    /\ cli_folder = <<>>
    /\ cli_pc = "idle"
    /\ cli_exception = <<>>
    /\ stdout = <<>>
    /\ stderr = <<>>
    /\ exit_status = 0

(***************************************************************************)
(* SpecTick: the indexed tick topics of Mint, Burn and Collect logs and    *)
(* their decoding by tick_hex_to_int.                                      *)
(***************************************************************************)
MaxTickMag == 40

\* int24 values the pool emits: a band around zero, the int24 extremes, the
\* tick range limits and values around the 20-bit boundary.
TickValues ==
    (-MaxTickMag .. MaxTickMag)
        \cup {-8388608, -8388607, 8388606, 8388607}
        \cup {MIN_TICK, MIN_TICK + 1, MAX_TICK - 1, MAX_TICK}
        \cup {-1048577, -1048576, -1048575, 1048575, 1048576}

\* 64-character topics that are not sign extensions of an int24: the 4th
\* character is f, the other padding characters are 0.
RawTopics ==
    { [i \in 1..58 |-> IF i = 4 THEN 15 ELSE 0] \o IntToHex(u, 6) :
        u \in {0, 1, 1048575, 1048576, 8388608, 16777215} }

TickInit ==
    /\ \/ \E t \in TickValues : tick_src = <<t>> /\ tick_hex = TickIntToHex(t)
       \/ \E h \in RawTopics : tick_src = <<>> /\ tick_hex = h
    /\ tick = <<>>
    /\ LiqIdle
    /\ FetchIdle
    /\ DecodeIdle
    /\ ReportIdle
    /\ CliIdle

\* decode_mint / decode_burn / decode_collect: tick_hex_to_int(event["topics"][k][2:])
DecodeTick ==
    /\ tick = <<>>
    /\ tick' = <<tick_hex_to_int(tick_hex)>>
    /\ UNCHANGED <<tick_src, tick_hex>>
    /\ UNCHANGED liq_vars
    /\ UNCHANGED fetch_vars
    /\ UNCHANGED decode_vars
    /\ UNCHANGED report_vars
    /\ UNCHANGED cli_vars

TickNext == DecodeTick

SpecTick == TickInit /\ [][TickNext]_vars

\* C1: for every int24 tick value t, tick_hex_to_int applied to the 32-byte
\* sign-extended two's-complement encoding of t returns t (in particular
\* for 1, -1 and -8388608).
C1_RoundTrip ==
    (tick # <<>> /\ tick_src # <<>>) => tick[1] = tick_src[1]

\* The operator the specification describes: low 6 hex characters minus 2^23
\* when the 4th character is f, the whole string otherwise.
RefTickHexToInt(h) ==
    IF h[4] = 15
    THEN HexToInt(SubSeq(h, 59, 64)) - 8388608
    ELSE HexToInt(h)

\* C2: on every 64-character topic tick_hex_to_int returns the low 6 hex
\* characters as an unsigned value minus 8388608 when the 4th character is
\* f, and the unsigned value of the whole string otherwise.
C2_MatchesReference ==
    tick # <<>> => tick[1] = RefTickHexToInt(tick_hex)

(***************************************************************************)
(* get_liquidity_per_tick (plot_liquidity.py) and the active tick of       *)
(* get_pool_state (pool_state.py).                                         *)
(***************************************************************************)
num_surrounding_ticks == 300
DEFAULT_SURROUNDING_TICKS == 300

\* Variant of plot_active_tick_idx that rounds up to the next multiple.
plot_active_tick_idx_ceil(current_tick_idx, spacing) ==
    LET ceiled == ((current_tick_idx + spacing - 1) \div spacing) * spacing
    IN  IF ceiled < MIN_TICK THEN MIN_TICK
        ELSE IF ceiled > MAX_TICK THEN MAX_TICK
        ELSE ceiled

\* math.floor(current_tick_idx / tick_spacing) * tick_spacing, clamped
\* (plot_liquidity.py).  \div is floor division, as math.floor of the
\* quotient is for ticks of this size.
plot_active_tick_idx(current_tick_idx, spacing) ==
    LET floored == (current_tick_idx \div spacing) * spacing
    IN  IF floored < MIN_TICK THEN MIN_TICK
        ELSE IF floored > MAX_TICK THEN MAX_TICK
        ELSE floored

\* Variant of pool_active_tick_idx without the clamp at MIN_TICK.
pool_active_tick_idx_unclamped(current_tick_idx, spacing) ==
    LET floored == (current_tick_idx \div spacing) * spacing
    IN  IF floored > MAX_TICK THEN MAX_TICK ELSE floored

\* The same computation in get_pool_state (pool_state.py).
pool_active_tick_idx(current_tick_idx, spacing) ==
    LET floored == (current_tick_idx \div spacing) * spacing
    IN  IF floored < MIN_TICK THEN MIN_TICK
        ELSE IF floored > MAX_TICK THEN MAX_TICK
        ELSE floored

\* Variant of active_tick_processed that applies the active tick's own net
\* liquidity to the seed.
active_tick_processed_net(ticks, active_tick_idx, liq) ==
    [ liquidity_active |-> IF active_tick_idx \in DOMAIN ticks
                           THEN liq + ticks[active_tick_idx].liquidityNet ELSE liq,
      tick_idx         |-> active_tick_idx,
      liquidity_net    |-> IF active_tick_idx \in DOMAIN ticks
                           THEN ticks[active_tick_idx].liquidityNet ELSE 0,
      liquidity_gross  |-> IF active_tick_idx \in DOMAIN ticks
                           THEN ticks[active_tick_idx].liquidityGross ELSE 0 ]

\* active_tick_processed: the seed ProcessedTick.
active_tick_processed(ticks, active_tick_idx, liq) ==
    [ liquidity_active |-> liq,
      tick_idx         |-> active_tick_idx,
      liquidity_net    |-> IF active_tick_idx \in DOMAIN ticks
                           THEN ticks[active_tick_idx].liquidityNet ELSE 0,
      liquidity_gross  |-> IF active_tick_idx \in DOMAIN ticks
                           THEN ticks[active_tick_idx].liquidityGross ELSE 0 ]

\* Whether a per-tick record has the fields get_liquidity_per_tick indexes;
\* indexing a record without them raises KeyError.
has_liquidity_fields(tick_record) ==
    {"liquidityGross", "liquidityNet"} \subseteq DOMAIN tick_record

\* Variant of walk_step that leaves liquidity_gross at 0.
walk_step_no_gross(ticks, spacing, direction, w) ==
    LET idx == IF direction = "ASC" THEN w.idx + spacing ELSE w.idx - spacing
    IN  IF direction \notin {"ASC", "DSC"} THEN [w EXCEPT !.stop = "raise"]
        ELSE IF idx < MIN_TICK \/ idx > MAX_TICK THEN [w EXCEPT !.stop = "break"]
        ELSE IF idx \in DOMAIN ticks /\ ~has_liquidity_fields(ticks[idx])
        THEN [w EXCEPT !.stop = "raise"]
        ELSE
          LET current_tick_initialized == idx \in DOMAIN ticks
              cit == IF current_tick_initialized THEN <<ticks[idx]>> ELSE w.cit
              fresh == [ liquidity_active |-> w.prev.liquidity_active,
                         tick_idx         |-> idx,
                         liquidity_net    |-> IF current_tick_initialized
                                              THEN ticks[idx].liquidityNet ELSE 0,
                         liquidity_gross  |-> 0 ]
          IN  IF direction = "ASC" /\ current_tick_initialized
              THEN LET cur == [fresh EXCEPT !.liquidity_active =
                                  w.prev.liquidity_active + cit[1].liquidityNet]
                   IN  [idx |-> idx, prev |-> cur, cit |-> cit,
                        processed |-> Append(w.processed, cur), stop |-> "run"]
              ELSE IF direction = "DSC" /\ w.prev.liquidity_net # 0
              THEN IF cit = <<>>
                   THEN \* current_initialized_tick is read before assignment
                        [w EXCEPT !.stop = "raise"]
                   ELSE LET cur == [fresh EXCEPT !.liquidity_active =
                                       w.prev.liquidity_active - cit[1].liquidityNet]
                        IN  [idx |-> idx, prev |-> cur, cit |-> cit,
                             processed |-> Append(w.processed, cur), stop |-> "run"]
              ELSE [idx |-> idx, prev |-> fresh, cit |-> cit,
                    processed |-> Append(w.processed, fresh), stop |-> "run"]

\* One iteration of the loop of compute_surrounding_ticks.  The loop state w:
\*   idx       current_tick_idx
\*   prev      previous_tick_processed
\*   cit       current_initialized_tick: <<>> while the local is unbound
\*   processed processed_ticks
\*   stop      "run", "break" (left the tick range) or "raise" (exception)
walk_step(ticks, spacing, direction, w) ==
    LET idx == IF direction = "ASC" THEN w.idx + spacing ELSE w.idx - spacing
    IN  IF direction \notin {"ASC", "DSC"} THEN [w EXCEPT !.stop = "raise"]
        ELSE IF idx < MIN_TICK \/ idx > MAX_TICK THEN [w EXCEPT !.stop = "break"]
        ELSE IF idx \in DOMAIN ticks /\ ~has_liquidity_fields(ticks[idx])
        THEN [w EXCEPT !.stop = "raise"]
        ELSE
          LET current_tick_initialized == idx \in DOMAIN ticks
              cit == IF current_tick_initialized THEN <<ticks[idx]>> ELSE w.cit
              fresh == [ liquidity_active |-> w.prev.liquidity_active,
                         tick_idx         |-> idx,
                         liquidity_net    |-> IF current_tick_initialized
                                              THEN ticks[idx].liquidityNet ELSE 0,
                         liquidity_gross  |-> IF current_tick_initialized
                                              THEN ticks[idx].liquidityGross ELSE 0 ]
          IN  IF direction = "ASC" /\ current_tick_initialized
              THEN LET cur == [fresh EXCEPT !.liquidity_active =
                                  w.prev.liquidity_active + cit[1].liquidityNet]
                   IN  [idx |-> idx, prev |-> cur, cit |-> cit,
                        processed |-> Append(w.processed, cur), stop |-> "run"]
              ELSE IF direction = "DSC" /\ w.prev.liquidity_net # 0
              THEN IF cit = <<>>
                   THEN \* current_initialized_tick is read before assignment
                        [w EXCEPT !.stop = "raise"]
                   ELSE LET cur == [fresh EXCEPT !.liquidity_active =
                                       w.prev.liquidity_active - cit[1].liquidityNet]
                        IN  [idx |-> idx, prev |-> cur, cit |-> cit,
                             processed |-> Append(w.processed, cur), stop |-> "run"]
              ELSE [idx |-> idx, prev |-> fresh, cit |-> cit,
                    processed |-> Append(w.processed, fresh), stop |-> "run"]

\* n consecutive iterations of the loop body from loop state w; an iteration
\* after a break or an exception leaves the state as it is.  The iterations
\* are split in halves to keep the evaluation shallow.
RECURSIVE walk_loop(_, _, _, _, _)
walk_loop(ticks, spacing, direction, n, w) ==
    IF n = 0 \/ w.stop # "run" THEN w
    ELSE IF n = 1 THEN walk_step(ticks, spacing, direction, w)
    ELSE LET half == walk_loop(ticks, spacing, direction, n \div 2, w)
         IN  walk_loop(ticks, spacing, direction, n - (n \div 2), half)

\* Variant of compute_surrounding_ticks that walks one step less.
compute_surrounding_ticks_short(ticks, seed, spacing, direction) ==
    walk_loop(ticks, spacing, direction, num_surrounding_ticks - 1,
              [idx |-> seed.tick_idx, prev |-> seed, cit |-> <<>>,
               processed |-> <<seed>>, stop |-> "run"])

\* compute_surrounding_ticks(active_tick_processed, tick_spacing, direction)
compute_surrounding_ticks(ticks, seed, spacing, direction) ==
    walk_loop(ticks, spacing, direction, num_surrounding_ticks,
              [idx |-> seed.tick_idx, prev |-> seed, cit |-> <<>>,
               processed |-> <<seed>>, stop |-> "run"])

\* get_liquidity_per_tick(initialized_ticks, current_tick, tick_spacing, liquidity):
\* the two walks, the active tick and the tick spacing it returns or its exception.
get_liquidity_per_tick(ticks, cur_tick, spacing, liq) ==
    LET active_tick_idx  == plot_active_tick_idx(cur_tick, spacing)
        seed             == active_tick_processed(ticks, active_tick_idx, liq)
        subsequent_ticks == compute_surrounding_ticks(ticks, seed, spacing, "ASC")
        previous_ticks   == compute_surrounding_ticks(ticks, seed, spacing, "DSC")
    IN  IF active_tick_idx \in DOMAIN ticks /\ ~has_liquidity_fields(ticks[active_tick_idx])
        THEN [status |-> "raised"]
        ELSE IF subsequent_ticks.stop = "raise" \/ previous_ticks.stop = "raise"
        THEN [status |-> "raised"]
        ELSE [ status           |-> "returned",
               tick_spacing     |-> spacing,
               active_tick_idx  |-> active_tick_idx,
               previous_ticks   |-> previous_ticks.processed,
               subsequent_ticks |-> subsequent_ticks.processed ]

(***************************************************************************)
(* Hashes, addresses and position keys.                                    *)
(***************************************************************************)
\* "0x" + keccak.new(digest_bits = 256).update(signature).hexdigest(): the
\* hash is kept symbolic, one value per signature string.
Keccak(signature) == <<"keccak256", signature>>

\* A 20-byte address, by its number: the number's 4 bytes, five times over.
Address(n) == [i \in 1..40 |-> IntToHex(n, 8)[((i - 1) % 8) + 1]]

\* to_checksum_address changes the case of the letters a-f only; a digit
\* 10..15 stands for either case, so the digits are unchanged.
to_checksum_address(address) == address

\* encode_packed accepts an int24 value only.
is_int24(t) == t >= -8388608 /\ t <= 8388607

\* encode_packed of an int24: 3 bytes, big-endian two's complement.
packed_int24(t) == IntToHex(IF t < 0 THEN 16777216 + t ELSE t, 6)

\* "0x" + keccak256(encode_packed(["address", "int24", "int24"],
\* [to_checksum_address(owner), tickLower, tickUpper])).hexdigest()
position_key(owner, tick_lower, tick_upper) ==
    Keccak(to_checksum_address(owner) \o packed_int24(tick_lower) \o packed_int24(tick_upper))

(***************************************************************************)
(* get_pool_state (pool_state.py).                                         *)
(***************************************************************************)
\* The loops of get_pool_state over range(1, DEFAULT_SURROUNDING_TICKS), for
\* one direction (sgn = 1 above, -1 below): iterations i .. i+n-1 from loop
\* state p = [idx, calls, stop], each doing tick_idx += i*tick_spacing (or -=)
\* and then pool.functions.ticks(tick_idx).call(); the call raises when the
\* argument is no int24.  The iterations are split in halves to keep the
\* evaluation shallow.
RECURSIVE pool_tick_loop(_, _, _, _, _)
pool_tick_loop(spacing, sgn, i, n, p) ==
    IF n = 0 \/ p.stop # "run" THEN p
    ELSE IF n = 1
    THEN LET tick_idx == p.idx + sgn * i * spacing
         IN  [idx   |-> tick_idx,
              calls |-> Append(p.calls, tick_idx),
              stop  |-> IF tick_idx < -8388608 \/ tick_idx > 8388607
                        THEN "raise" ELSE "run"]
    ELSE LET half == pool_tick_loop(spacing, sgn, i, n \div 2, p)
         IN  pool_tick_loop(spacing, sgn, i + (n \div 2), n - (n \div 2), half)

pool_tick_calls(active_tick_idx, spacing, sgn) ==
    pool_tick_loop(spacing, sgn, 1, DEFAULT_SURROUNDING_TICKS - 1,
                   [idx |-> active_tick_idx, calls |-> <<>>, stop |-> "run"])

\* pool.functions.ticks(tick_idx).call(): the pool contract's tuple for the
\* tick, all zero for a tick that is not initialized.  storage maps the
\* initialized ticks to their liquidityGross and liquidityNet.
chain_tick(storage, tick_idx) ==
    IF tick_idx \in DOMAIN storage
    THEN <<storage[tick_idx].liquidityGross, storage[tick_idx].liquidityNet,
           0, 0, 0, 0, 0, TRUE>>
    ELSE <<0, 0, 0, 0, 0, 0, 0, FALSE>>

\* The record get_pool_state stores for a tick.
pool_tick_record(tick_raw) ==
    [ LiquidityGross                 |-> tick_raw[1],
      LiquidityNet                   |-> tick_raw[2],
      FeeGrowthOutside0X128          |-> tick_raw[3],
      FeeGrowthOutside1X128          |-> tick_raw[4],
      tickCumulativeOutside          |-> tick_raw[5],
      secondsPerLiquidityOutsideX128 |-> tick_raw[6],
      secondsOutside                 |-> tick_raw[7],
      initialized                    |-> tick_raw[8] ]

\* The record get_pool_state stores for a position; the pool contract's
\* tuple is all zero here.
pool_position_record(position_raw) ==
    [ liquidity                |-> position_raw[1],
      feeGrowthInside0LastX128 |-> position_raw[2],
      feeGrowthInside1LastX128 |-> position_raw[3],
      tokensOwed0              |-> position_raw[4],
      tokensOwed1              |-> position_raw[5] ]

\* get_pool_state(pool_address, block, positions, surrounding_ticks): the
\* active tick, the tick-indexed state read above and below it and the
\* position-indexed state.  positions is [kind, items]: a JSON list of
\* items, or a JSON object ("dict") whose values are the items;
\* positions.values() raises AttributeError on a list.  The loops run over
\* range(1, DEFAULT_SURROUNDING_TICKS) whatever surrounding_ticks is.
get_pool_state(storage, cur_tick, spacing, positions, surrounding_ticks) ==
    LET active_tick_idx == pool_active_tick_idx(cur_tick, spacing)
        above == pool_tick_calls(active_tick_idx, spacing, 1)
        below == pool_tick_calls(active_tick_idx, spacing, -1)
        calls == IF above.stop = "raise" THEN above.calls
                 ELSE above.calls \o below.calls
        tick_indexed_state ==
            [tick_idx \in { calls[i] : i \in DOMAIN calls } |->
                pool_tick_record(chain_tick(storage, tick_idx))]
        position_indexed_state ==
            [key \in { positions.items[i] : i \in DOMAIN positions.items } |->
                pool_position_record(<<0, 0, 0, 0, 0>>)]
    IN  IF above.stop = "raise" \/ below.stop = "raise" \/ positions.kind # "dict"
        THEN [ status          |-> "raised",
               active_tick_idx |-> active_tick_idx,
               tick_calls      |-> calls ]
        ELSE [ status          |-> "returned",
               active_tick_idx |-> active_tick_idx,
               tick_calls      |-> calls,
               ticks           |-> tick_indexed_state,
               position_calls  |-> positions.items,
               positions       |-> position_indexed_state ]

(***************************************************************************)
(* SpecLiq: one run of plot_liquidity.py or of pool_state.py on a pool.    *)
(***************************************************************************)
CurSpan == 1

\* Tick spacings of the 0.01% and 0.3% fee tiers.
TickSpacings == {1, 60}

\* Current ticks at the bottom of the tick range, around zero and at the top.
CurrentTicks ==
    (MIN_TICK .. MIN_TICK + CurSpan) \cup (-CurSpan .. CurSpan)
        \cup (MAX_TICK - CurSpan .. MAX_TICK)

Liquidities == {1000}

\* Per-tick records of the pool-state report as plot_liquidity reads them.
TickRecords ==
    { [liquidityGross |-> 50, liquidityNet |-> 50],
      [liquidityGross |-> 30, liquidityNet |-> -30],
      [liquidityGross |-> 80, liquidityNet |-> 0] }

KeyOffsets == {-2, -1, 0, 1}

\* Initializable ticks (multiples of the tick spacing, within the tick range)
\* near the current tick.
CandidateKeys(cur_tick, spacing) ==
    { k \in { ((cur_tick \div spacing) + m) * spacing : m \in KeyOffsets } :
        k >= MIN_TICK /\ k <= MAX_TICK }

\* The positions argument of get_pool_state: the list relevant_positions.py
\* prints under "data", or an object with the same keys as its values.
PositionArguments ==
    { [kind |-> k, items |-> l] :
        k \in {"list", "dict"},
        l \in { <<>>,
                <<position_key(Address(10), -60, 60), position_key(Address(20), 0, 120)>> } }

\* The surrounding_ticks argument: the default and a smaller window.
SurroundingTicksArguments == {2, DEFAULT_SURROUNDING_TICKS}

\* The pool's initialized ticks on chain: none, or the two initializable
\* ticks next to the current one.
ChainTicks(cur_tick, spacing) ==
    { <<>>,
      [k \in { k \in { ((cur_tick \div spacing) + m) * spacing : m \in {-1, 1} } :
                 k >= MIN_TICK /\ k <= MAX_TICK } |->
          [liquidityGross |-> 50, liquidityNet |-> 50]] }

LiqInit ==
    /\ tool \in {"plot_liquidity", "pool_state", "pool_state_then_plot"}
    /\ tick_spacing \in TickSpacings
    /\ current_tick \in CurrentTicks
    /\ liquidity \in Liquidities
    /\ IF tool = "plot_liquidity"
       THEN /\ \E K \in SUBSET CandidateKeys(current_tick, tick_spacing) :
                 initialized_ticks \in [K -> TickRecords]
            /\ pool_args = <<>>
       ELSE /\ initialized_ticks \in ChainTicks(current_tick, tick_spacing)
            /\ \E p \in PositionArguments : \E n \in SurroundingTicksArguments :
                 pool_args = [positions |-> p, surrounding_ticks |-> n]
    /\ liq_out = [status |-> "pending"]
    /\ pool_out = [status |-> "pending"]
    /\ TickIdle
    /\ FetchIdle
    /\ DecodeIdle
    /\ ReportIdle
    /\ CliIdle

\* plot_liquidity.py main: get_liquidity_per_tick on the report's fields.
GetLiquidityPerTick ==
    /\ tool = "plot_liquidity"
    /\ liq_out.status = "pending"
    /\ liq_out' = get_liquidity_per_tick(initialized_ticks, current_tick,
                                         tick_spacing, liquidity)
    /\ UNCHANGED <<tool, initialized_ticks, current_tick, tick_spacing, liquidity, pool_out,
                   pool_args>>
    /\ UNCHANGED tick_vars
    /\ UNCHANGED fetch_vars
    /\ UNCHANGED decode_vars
    /\ UNCHANGED report_vars
    /\ UNCHANGED cli_vars

\* pool_state.py: get_pool_state on the pool's slot0.tick, tickSpacing and
\* ticks, with the positions and surrounding_ticks given on the command line.
GetPoolState ==
    /\ tool \in {"pool_state", "pool_state_then_plot"}
    /\ pool_out.status = "pending"
    /\ pool_out' = get_pool_state(initialized_ticks, current_tick, tick_spacing,
                                  pool_args.positions, pool_args.surrounding_ticks)
    /\ UNCHANGED <<tool, initialized_ticks, current_tick, tick_spacing, liquidity, liq_out,
                   pool_args>>
    /\ UNCHANGED tick_vars
    /\ UNCHANGED fetch_vars
    /\ UNCHANGED decode_vars
    /\ UNCHANGED report_vars
    /\ UNCHANGED cli_vars

\* plot_liquidity.py on the report pool_state.py printed: the report's
\* data.ticks (keys read back with int(tick_idx)), data.slot0.tick,
\* data.tickSpacing and data.liquidity.
PlotPoolStateReport ==
    /\ tool = "pool_state_then_plot"
    /\ pool_out.status = "returned"
    /\ liq_out.status = "pending"
    /\ liq_out' = get_liquidity_per_tick(pool_out.ticks, current_tick,
                                         tick_spacing, liquidity)
    /\ UNCHANGED <<tool, initialized_ticks, current_tick, tick_spacing, liquidity, pool_out,
                   pool_args>>
    /\ UNCHANGED tick_vars
    /\ UNCHANGED fetch_vars
    /\ UNCHANGED decode_vars
    /\ UNCHANGED report_vars
    /\ UNCHANGED cli_vars

LiqNext == GetLiquidityPerTick \/ GetPoolState \/ PlotPoolStateReport

SpecLiq == LiqInit /\ [][LiqNext]_vars

LiqReturned == liq_out.status = "returned"

\* ticks_processed = previous_ticks + subsequent_ticks, the value returned
\* under data.ticks_processed.
ticks_processed == liq_out.previous_ticks \o liq_out.subsequent_ticks

PoolComputed == pool_out.status \in {"returned", "raised"}

\* Sum of liquidityNet over a set of mapped ticks.
RECURSIVE SumNet(_, _)
SumNet(ticks, K) ==
    IF K = {} THEN 0
    ELSE LET t == CHOOSE x \in K : TRUE
         IN  ticks[t].liquidityNet + SumNet(ticks, K \ {t})

\* C3: each descending step sets the new tick's liquidity_active to the
\* previous tick's liquidity_active minus the previous tick's liquidity_net
\* when that net is non-zero, and to the previous tick's liquidity_active
\* otherwise.
C3_DescendingStep ==
    LiqReturned =>
        \A i \in 1..(Len(liq_out.previous_ticks) - 1) :
            LET prev == liq_out.previous_ticks[i]
                new  == liq_out.previous_ticks[i + 1]
            IN  new.liquidity_active =
                    IF prev.liquidity_net # 0
                    THEN prev.liquidity_active - prev.liquidity_net
                    ELSE prev.liquidity_active

\* C4: each ascending step adds the new tick's liquidityNet to the previous
\* tick's liquidity_active when the new tick is mapped and copies it
\* otherwise, so that after k steps liquidity_active is the pool liquidity
\* plus the liquidityNet of every mapped tick strictly above the active tick
\* up to and including that tick.
C4_AscendingSum ==
    LiqReturned =>
        \A k \in 2..Len(liq_out.subsequent_ticks) :
            LET prev == liq_out.subsequent_ticks[k - 1]
                new  == liq_out.subsequent_ticks[k]
            IN  /\ new.liquidity_active =
                       IF new.tick_idx \in DOMAIN initialized_ticks
                       THEN prev.liquidity_active
                                + initialized_ticks[new.tick_idx].liquidityNet
                       ELSE prev.liquidity_active
                /\ new.liquidity_active =
                       liquidity + SumNet(initialized_ticks,
                           { t \in DOMAIN initialized_ticks :
                               t > liq_out.active_tick_idx /\ t <= new.tick_idx })

\* C5: ticks_processed is strictly increasing in tick_idx and holds the seed
\* tick at active_tick_idx exactly once.
C5_OrderedSeedOnce ==
    LiqReturned =>
        /\ \A i \in 1..(Len(ticks_processed) - 1) :
               ticks_processed[i].tick_idx < ticks_processed[i + 1].tick_idx
        /\ Cardinality({ i \in 1..Len(ticks_processed) :
               ticks_processed[i].tick_idx = liq_out.active_tick_idx }) = 1

\* C6: every ProcessedTick of the result at active_tick_idx has
\* liquidity_active equal to the liquidity argument, whether or not the
\* active tick is in the mapping.
C6_SeedLiquidity ==
    LiqReturned =>
        \A i \in 1..Len(ticks_processed) :
            ticks_processed[i].tick_idx = liq_out.active_tick_idx
                => ticks_processed[i].liquidity_active = liquidity

\* A result whose active tick is mapped with a non-zero liquidityNet.
C6_Witness ==
    /\ LiqReturned
    /\ liq_out.active_tick_idx \in DOMAIN initialized_ticks
    /\ initialized_ticks[liq_out.active_tick_idx].liquidityNet # 0
    /\ \E i \in 1..Len(ticks_processed) :
           ticks_processed[i].tick_idx = liq_out.active_tick_idx

\* C7 as stated: for currentTick = MAX_TICK and every positive tickSpacing
\* the active tick of get_liquidity_per_tick and of get_pool_state is MAX_TICK.
C7_ActiveIsMaxTick ==
    current_tick = MAX_TICK =>
        /\ LiqReturned => liq_out.active_tick_idx = MAX_TICK
        /\ PoolComputed => pool_out.active_tick_idx = MAX_TICK

\* C7 amended: for currentTick = MAX_TICK the active tick of both functions
\* is the greatest multiple of tickSpacing not above MAX_TICK; it never
\* exceeds MAX_TICK and is MAX_TICK only when tickSpacing divides it.
C7_ActiveAtMaxTick ==
    current_tick = MAX_TICK =>
        /\ LiqReturned =>
               /\ liq_out.active_tick_idx = MAX_TICK - (MAX_TICK % tick_spacing)
               /\ liq_out.active_tick_idx <= MAX_TICK
        /\ PoolComputed =>
               /\ pool_out.active_tick_idx = MAX_TICK - (MAX_TICK % tick_spacing)
               /\ pool_out.active_tick_idx <= MAX_TICK

\* get_liquidity_per_tick returned for a pool at MAX_TICK whose spacing does
\* not divide MAX_TICK.
C7_Witness ==
    /\ LiqReturned
    /\ current_tick = MAX_TICK
    /\ MAX_TICK % tick_spacing # 0
    /\ liq_out.active_tick_idx < MAX_TICK

TickCallSet == { pool_out.tick_calls[i] : i \in DOMAIN pool_out.tick_calls }

\* C17: get_pool_state reads tick storage at exactly the indices
\* activeTick + i * tickSpacing and activeTick - i * tickSpacing for
\* i = 1 .. surrounding_ticks - 1, surrounding_ticks being its argument.
C17_EvenlySpacedWindow ==
    PoolComputed =>
        /\ TickCallSet =
             { pool_out.active_tick_idx + i * tick_spacing :
                 i \in 1..(pool_args.surrounding_ticks - 1) }
             \cup { pool_out.active_tick_idx - i * tick_spacing :
                      i \in 1..(pool_args.surrounding_ticks - 1) }
        /\ Len(pool_out.tick_calls) = 2 * (pool_args.surrounding_ticks - 1)

\* C18: get_liquidity_per_tick, run on the report get_pool_state returned,
\* finds the gross and net liquidity of every mapped tick it reads and
\* returns without a missing-field error.
C18_ReportAccepted ==
    ( /\ tool = "pool_state_then_plot"
      /\ liq_out.status # "pending" )
    => liq_out.status = "returned"

\* C19: given the list of keys relevant_positions.py prints, get_pool_state
\* reads position storage once per key and returns a positions mapping keyed
\* by exactly those keys.
C19_PositionListAccepted ==
    ( /\ PoolComputed
      /\ pool_args.positions.kind = "list" )
    => /\ pool_out.status = "returned"
       /\ pool_out.position_calls = pool_args.positions.items
       /\ DOMAIN pool_out.positions =
            { pool_args.positions.items[i] : i \in DOMAIN pool_args.positions.items }

\* The tick indices of the result of get_liquidity_per_tick.
ProcessedIndices == { ticks_processed[i].tick_idx : i \in DOMAIN ticks_processed }

\* C24: every tick_idx of ticks_processed lies in [MIN_TICK, MAX_TICK] and
\* is active_tick_idx + k * tick_spacing with |k| <= 300, and every such
\* index within the tick range appears: each walk takes at most 300 steps
\* and stops before leaving the tick range.
C24_WalkWindow ==
    LiqReturned =>
        /\ ProcessedIndices =
             { t \in { liq_out.active_tick_idx + k * tick_spacing : k \in -300..300 } :
                 t >= -887272 /\ t <= 887272 }
        /\ Len(liq_out.subsequent_ticks) <= 301
        /\ Len(liq_out.previous_ticks) <= 301

\* A run at the top of the tick range: the ascending walk stops at once,
\* the descending walk takes its 300 steps.
C24_Witness ==
    /\ LiqReturned
    /\ Len(liq_out.subsequent_ticks) = 1
    /\ Len(liq_out.previous_ticks) = 301
    /\ liq_out.active_tick_idx + tick_spacing > MAX_TICK

\* C26: get_liquidity_per_tick on a tick mapping with the fields it reads
\* completes without raising.
C26_NeverRaises ==
    ( /\ tool = "plot_liquidity"
      /\ liq_out.status # "pending" )
    => liq_out.status # "raised"

\* C28: the active tick computed by get_liquidity_per_tick and by
\* get_pool_state is the greatest multiple of the tick spacing not above the
\* current tick.
C28_ActiveIsMultiple ==
    /\ LiqReturned =>
          /\ liq_out.active_tick_idx % tick_spacing = 0
          /\ liq_out.active_tick_idx <= current_tick
          /\ liq_out.active_tick_idx + tick_spacing > current_tick
    /\ PoolComputed =>
          /\ pool_out.active_tick_idx % tick_spacing = 0
          /\ pool_out.active_tick_idx <= current_tick
          /\ pool_out.active_tick_idx + tick_spacing > current_tick

\* C29: every tick index get_pool_state passes to the pool's ticks accessor,
\* and every key of the returned ticks mapping, lies in [MIN_TICK, MAX_TICK].
C29_ReadsInTickRange ==
    PoolComputed =>
        /\ \A t \in TickCallSet : t >= -887272 /\ t <= 887272
        /\ pool_out.status = "returned" =>
              \A t \in DOMAIN pool_out.ticks : t >= -887272 /\ t <= 887272

\* C30: in the result of get_liquidity_per_tick every ProcessedTick carries
\* the liquidityNet and liquidityGross of its tick in the input mapping, and
\* 0 for both when its tick is absent from the mapping.
C30_OwnNetAndGross ==
    LiqReturned =>
        \A i \in DOMAIN ticks_processed :
            LET p == ticks_processed[i]
            IN  IF p.tick_idx \in DOMAIN initialized_ticks
                THEN /\ p.liquidity_net = initialized_ticks[p.tick_idx].liquidityNet
                     /\ p.liquidity_gross = initialized_ticks[p.tick_idx].liquidityGross
                ELSE /\ p.liquidity_net = 0
                     /\ p.liquidity_gross = 0

\* A result with a mapped active tick, a mapped tick above it and absent
\* ticks.
C30_Witness ==
    /\ LiqReturned
    /\ liq_out.active_tick_idx \in DOMAIN initialized_ticks
    /\ \E t \in DOMAIN initialized_ticks :
          /\ t > liq_out.active_tick_idx
          /\ initialized_ticks[t].liquidityGross # 0
          /\ t \in ProcessedIndices
    /\ \E t \in ProcessedIndices : t \notin DOMAIN initialized_ticks

(***************************************************************************)
(* The transaction fetchers (transactions.py, mints_burns_swaps.py) and    *)
(* the Etherscan client (utils/etherscan_requests.py).                     *)
(***************************************************************************)

mint_hash    == Keccak("Mint(address,address,int24,int24,uint128,uint256,uint256)")
burn_hash    == Keccak("Burn(address,int24,int24,uint128,uint256,uint256)")
swap_hash    == Keccak("Swap(address,address,int256,int256,uint160,uint128,int24)")
flash_hash   == Keccak("Flash(address,address,uint256,uint256,uint256,uint256)")
collect_hash == Keccak("Flash(address,address,int24,int24,uint128,uint128)")

\* The topic0 values of the events a Uniswap v3 pool emits (a selection).
PoolEventTopics ==
    { Keccak("Mint(address,address,int24,int24,uint128,uint256,uint256)"),
      Keccak("Burn(address,int24,int24,uint128,uint256,uint256)"),
      Keccak("Swap(address,address,int256,int256,uint160,uint128,int24)"),
      Keccak("Flash(address,address,uint256,uint256,uint256,uint256)"),
      Keccak("Collect(address,address,int24,int24,uint128,uint128)"),
      Keccak("Initialize(uint160,int24)") }

\* The explorer's answer to getLogs for a page: the page's logs with message
\* "OK" while pages remain; past the last page, what explorer.end_signal
\* says: a null result, an empty list (both with message "OK") or the
\* message "No records found".
ExplorerLogsResponse(ex, pg) ==
    IF pg <= Len(ex.pages)
    THEN [message |-> "OK", result |-> [kind |-> "list", logs |-> ex.pages[pg]]]
    ELSE IF ex.end_signal = "null"
    THEN [message |-> "OK", result |-> [kind |-> "null", logs |-> <<>>]]
    ELSE IF ex.end_signal = "empty"
    THEN [message |-> "OK", result |-> [kind |-> "list", logs |-> <<>>]]
    ELSE [message |-> "No records found", result |-> [kind |-> "list", logs |-> <<>>]]

\* get_pool_logs(address, from_block, to_block, page): raises unless the
\* message is "OK", returns the response's result otherwise.
get_pool_logs(ex, pg) ==
    LET response_json == ExplorerLogsResponse(ex, pg)
    IN  IF response_json.message # "OK"
        THEN [kind |-> "raise", logs |-> <<>>]
        ELSE response_json.result

\* Variant of get_block_no_by_time that returns whatever the message is.
get_block_no_by_time_any(ex, closest) == "block"

\* get_block_no_by_time(timestamp, closest): raises unless the message of
\* the explorer's response is "OK".  The explorer answers the "after"
\* request (the start date) with block_message and the "before" request
\* (the end date) with end_block_message.
get_block_no_by_time(ex, closest) ==
    LET message == IF closest = "after" THEN ex.block_message
                   ELSE ex.end_block_message
    IN  IF message # "OK" THEN "raise" ELSE "block"

mint_types    == <<"address", "uint128", "uint256", "uint256">>
burn_types    == <<"uint128", "uint256", "uint256">>
swap_types    == <<"int256", "int256", "uint160", "uint128", "int24">>
flash_types   == <<"uint256", "uint256", "uint256", "uint256">>
collect_types == <<"address", "uint128", "uint128">>

\* Variant of remove_address_padding that keeps the first 40 characters.
remove_address_padding_front(address_padded) ==
    SubSeq(address_padded, 1, 40)

\* address_padded[len(address_padded)-40:], the "0x" prefix left implicit.
remove_address_padding(address_padded) ==
    SubSeq(address_padded, Len(address_padded) - 39, Len(address_padded))

\* eth_abi.decode of one 32-byte word: an address is the word's low 20
\* bytes, a uintN the word's value, an intN its two's complement value (a
\* negative word is read from its low 6 digits: values from -2^24 upwards).
abi_decode_word(type, word) ==
    IF type = "address" THEN SubSeq(word, 25, 64)
    ELSE IF type \in {"int256", "int24"} /\ word[1] >= 8
    THEN HexToInt(SubSeq(word, 59, 64)) - 16777216
    ELSE HexToInt(word)

\* eth_abi.decode(types, data_bytes): the data field is a sequence of 32-byte
\* words, one per static type.
abi_decode(types, data) == [i \in 1..Len(types) |-> abi_decode_word(types[i], data[i])]

\* The decoders index event["topics"] and method_data from 0; sequences
\* here start at 1.
decode_mint(event) ==
    LET method_data == abi_decode(mint_types, event.data)
    IN  [ sender    |-> to_checksum_address(remove_address_padding(method_data[1])),
          owner     |-> to_checksum_address(remove_address_padding(event.topics[2])),
          tickLower |-> tick_hex_to_int(event.topics[3]),
          tickUpper |-> tick_hex_to_int(event.topics[4]),
          amount    |-> method_data[2],
          amount0   |-> method_data[3],
          amount1   |-> method_data[4] ]

\* decode_burn returns "amount0": amount.
decode_burn(event) ==
    LET method_data == abi_decode(burn_types, event.data)
        amount  == method_data[1]
        amount0 == method_data[2]
        amount1 == method_data[3]
    IN  [ owner     |-> to_checksum_address(remove_address_padding(event.topics[2])),
          tickLower |-> tick_hex_to_int(event.topics[3]),
          tickUpper |-> tick_hex_to_int(event.topics[4]),
          amount    |-> amount,
          amount0   |-> amount,
          amount1   |-> amount1 ]

decode_swap(event) ==
    LET method_data == abi_decode(swap_types, event.data)
    IN  [ sender       |-> to_checksum_address(remove_address_padding(event.topics[2])),
          recipient    |-> to_checksum_address(remove_address_padding(event.topics[3])),
          amount0      |-> method_data[1],
          amount1      |-> method_data[2],
          sqrtPriceX96 |-> method_data[3],
          liquidity    |-> method_data[4],
          tick         |-> method_data[5] ]

decode_flash(event) ==
    LET method_data == abi_decode(flash_types, event.data)
    IN  [ sender    |-> to_checksum_address(remove_address_padding(event.topics[2])),
          recipient |-> to_checksum_address(remove_address_padding(event.topics[3])),
          amount0   |-> method_data[1],
          amount1   |-> method_data[2],
          paid0     |-> method_data[3],
          paid1     |-> method_data[4] ]

decode_collect(event) ==
    LET method_data == abi_decode(collect_types, event.data)
    IN  [ owner     |-> to_checksum_address(remove_address_padding(event.topics[2])),
          tickLower |-> tick_hex_to_int(event.topics[3]),
          tickUpper |-> tick_hex_to_int(event.topics[4]),
          recipient |-> method_data[1],
          amount0   |-> method_data[2],
          amount1   |-> method_data[3] ]

\* The fields every decoded event starts with.  gasTotal is the float
\* gas_price * 10**(-18) * gas_used, kept as the triple of its factors.
decoded_header(event, method) ==
    LET block_no  == HexToInt(event.blockNumber)
        timestamp == HexToInt(event.timeStamp)
        gas_price == HexToInt(event.gasPrice)
        gas_used  == HexToInt(event.gasUsed)
        gas_total == <<gas_price, -18, gas_used>>
    IN  [ blockNo   |-> block_no,
          timestamp |-> timestamp,
          gasPrice  |-> gas_price,
          gasUsed   |-> gas_used,
          gasTotal  |-> gas_total,
          method    |-> method ]

\* Variant of decode_uniswap_event that lets an unrecognized topic0 through.
decode_uniswap_event_lenient(event) ==
    IF event.topics[1] = mint_hash
    THEN decoded_header(event, "MINT") @@ decode_mint(event)
    ELSE IF event.topics[1] = burn_hash
    THEN decoded_header(event, "BURN") @@ decode_burn(event)
    ELSE IF event.topics[1] = swap_hash
    THEN decoded_header(event, "SWAP") @@ decode_swap(event)
    ELSE IF event.topics[1] = flash_hash
    THEN decoded_header(event, "FLASH") @@ decode_flash(event)
    ELSE IF event.topics[1] = collect_hash
    THEN decoded_header(event, "COLLECT") @@ decode_collect(event)
    ELSE decoded_header(event, "UNKNOWN")

\* decode_uniswap_event of transactions.py: the flat record of the header
\* fields updated with the method's fields, the method chosen by topic0;
\* [method |-> "raise"] stands for the exception raised when topic0 equals
\* none of the five hashes.
decode_uniswap_event(event) ==
    IF event.topics[1] = mint_hash
    THEN decoded_header(event, "MINT") @@ decode_mint(event)
    ELSE IF event.topics[1] = burn_hash
    THEN decoded_header(event, "BURN") @@ decode_burn(event)
    ELSE IF event.topics[1] = swap_hash
    THEN decoded_header(event, "SWAP") @@ decode_swap(event)
    ELSE IF event.topics[1] = flash_hash
    THEN decoded_header(event, "FLASH") @@ decode_flash(event)
    ELSE IF event.topics[1] = collect_hash
    THEN decoded_header(event, "COLLECT") @@ decode_collect(event)
    ELSE [method |-> "raise"]

\* decode_uniswap_event of mints_burns_swaps.py: three hashes.
mbs_decode_uniswap_event(event) ==
    IF event.topics[1] = mint_hash
    THEN decoded_header(event, "MINT") @@ decode_mint(event)
    ELSE IF event.topics[1] = burn_hash
    THEN decoded_header(event, "BURN") @@ decode_burn(event)
    ELSE IF event.topics[1] = swap_hash
    THEN decoded_header(event, "SWAP") @@ decode_swap(event)
    ELSE [method |-> "raise"]

\* Variant of decode_transactions that inserts each decoded event at the front.
RECURSIVE decode_transactions_front(_)
decode_transactions_front(ls) ==
    IF Len(ls) = 0 THEN <<>>
    ELSE LET event == ls[Len(ls)]
             rest  == decode_transactions_front(SubSeq(ls, 1, Len(ls) - 1))
         IN  IF event.topics[1] \in {mint_hash, burn_hash, swap_hash, flash_hash, collect_hash}
             THEN <<decode_uniswap_event(event)>> \o rest
             ELSE rest

\* The decoding loop of transactions.py: for event in logs, append the
\* decoded event when topic0 is in the list of five hashes.
RECURSIVE decode_transactions(_)
decode_transactions(ls) ==
    IF Len(ls) = 0 THEN <<>>
    ELSE LET event == ls[Len(ls)]
             rest  == decode_transactions(SubSeq(ls, 1, Len(ls) - 1))
         IN  IF event.topics[1] \in {mint_hash, burn_hash, swap_hash, flash_hash, collect_hash}
             THEN Append(rest, decode_uniswap_event(event))
             ELSE rest

\* The decoding loop of mints_burns_swaps.py: the list of three hashes.
RECURSIVE mbs_decode_transactions(_)
mbs_decode_transactions(ls) ==
    IF Len(ls) = 0 THEN <<>>
    ELSE LET event == ls[Len(ls)]
             rest  == mbs_decode_transactions(SubSeq(ls, 1, Len(ls) - 1))
         IN  IF event.topics[1] \in {mint_hash, burn_hash, swap_hash}
             THEN Append(rest, mbs_decode_uniswap_event(event))
             ELSE rest

DecodeRaised(events) == \E i \in 1..Len(events) : events[i].method = "raise"

(***************************************************************************)
(* Raw log entries as the explorer returns them: topics and data are the   *)
(* pool's ABI encoding of the event's parameters, the other fields hex     *)
(* strings.                                                                *)
(***************************************************************************)
\* ABI encodings in one 32-byte word, of values below 2^32.
AddressWord(address) == [i \in 1..24 |-> 0] \o address
UintWord(v) == [i \in 1..56 |-> 0] \o IntToHex(v, 8)
IntWord(v) == TickIntToHex(v)

\* A log of the pool with the given topics and data words, in block block_no.
EventLog(topics, data, block_no, gas_used) ==
    [ topics      |-> topics,
      data        |-> data,
      blockNumber |-> IntToHex(block_no, 2),
      timeStamp   |-> IntToHex(1600000000 + 12 * block_no, 8),
      gasPrice    |-> IntToHex(1000000000, 8),
      gasUsed     |-> IntToHex(gas_used, 5) ]

\* The pool's log for an event with signature hash topic0: a position event
\* of owner Address(owner) on [tick_lower, tick_upper) with payload amounts
\* a, a + 1, a + 2, or a swap, flash or initialize with amounts from a.
PoolEventLog(topic0, owner, tick_lower, tick_upper, a, block_no, gas_used) ==
    LET mint == Keccak("Mint(address,address,int24,int24,uint128,uint256,uint256)")
        burn == Keccak("Burn(address,int24,int24,uint128,uint256,uint256)")
        swap == Keccak("Swap(address,address,int256,int256,uint160,uint128,int24)")
        flash == Keccak("Flash(address,address,uint256,uint256,uint256,uint256)")
        init == Keccak("Initialize(uint160,int24)")
        position == <<topic0, AddressWord(Address(owner)),
                      IntWord(tick_lower), IntWord(tick_upper)>>
        parties  == <<topic0, AddressWord(Address(owner + 1)), AddressWord(Address(owner))>>
    IN  IF topic0 = mint
        THEN EventLog(position,
                      <<AddressWord(Address(owner + 1)), UintWord(a), UintWord(a + 1), UintWord(a + 2)>>,
                      block_no, gas_used)
        ELSE IF topic0 = burn
        THEN EventLog(position, <<UintWord(a), UintWord(a + 1), UintWord(a + 2)>>,
                      block_no, gas_used)
        ELSE IF topic0 = swap
        THEN EventLog(parties,
                      <<IntWord(a), IntWord(-a), UintWord(a + 1), UintWord(a + 2), IntWord(tick_lower)>>,
                      block_no, gas_used)
        ELSE IF topic0 = flash
        THEN EventLog(parties, <<UintWord(a), UintWord(a + 1), UintWord(a + 2), UintWord(a + 3)>>,
                      block_no, gas_used)
        ELSE IF topic0 = init
        THEN EventLog(<<topic0>>, <<UintWord(a), IntWord(tick_lower)>>, block_no, gas_used)
        ELSE \* Collect, and the signature transactions.py hashes for it
             EventLog(position, <<AddressWord(Address(owner + 1)), UintWord(a), UintWord(a + 1)>>,
                      block_no, gas_used)

\* The log the explorer serves in block block_no for topic0.
PoolLog(topic0, block_no) == PoolEventLog(topic0, 10, -60, 60, 7, block_no, 100000)

(***************************************************************************)
(* SpecDecode: decode_uniswap_event of either fetcher on one raw log.      *)
(***************************************************************************)
DecodeOwners == {10, 20, 2000000000}
DecodeTickRanges == {<<-60, 60>>, <<0, 120>>}
DecodeAmounts == {7, 500}

\* Signature hashes of the logs handed to decode_uniswap_event: the pool's
\* events and the signature transactions.py hashes for Collect.
DecodeTopics == PoolEventTopics \cup {collect_hash}

DecodeInit ==
    /\ dec_module \in {"transactions", "mints_burns_swaps"}
    /\ \E topic0 \in DecodeTopics : \E o \in DecodeOwners :
         \E r \in DecodeTickRanges : \E a \in DecodeAmounts :
            raw_event = PoolEventLog(topic0, o, r[1], r[2], a, 1, 100000)
    /\ decoded = [status |-> "pending"]
    /\ TickIdle
    /\ LiqIdle
    /\ FetchIdle
    /\ ReportIdle
    /\ CliIdle

\* transactions.py: decode_uniswap_event(event).
DecodeTransactionsEvent ==
    /\ dec_module = "transactions"
    /\ decoded.status = "pending"
    /\ LET event == decode_uniswap_event(raw_event)
       IN  decoded' = IF event.method = "raise"
                      THEN [status |-> "raised"]
                      ELSE [status |-> "returned", event |-> event]
    /\ UNCHANGED <<dec_module, raw_event>>
    /\ UNCHANGED tick_vars
    /\ UNCHANGED liq_vars
    /\ UNCHANGED fetch_vars
    /\ UNCHANGED report_vars
    /\ UNCHANGED cli_vars

\* mints_burns_swaps.py: decode_uniswap_event(event).
DecodeMintsBurnsSwapsEvent ==
    /\ dec_module = "mints_burns_swaps"
    /\ decoded.status = "pending"
    /\ LET event == mbs_decode_uniswap_event(raw_event)
       IN  decoded' = IF event.method = "raise"
                      THEN [status |-> "raised"]
                      ELSE [status |-> "returned", event |-> event]
    /\ UNCHANGED <<dec_module, raw_event>>
    /\ UNCHANGED tick_vars
    /\ UNCHANGED liq_vars
    /\ UNCHANGED fetch_vars
    /\ UNCHANGED report_vars
    /\ UNCHANGED cli_vars

DecodeNext == DecodeTransactionsEvent \/ DecodeMintsBurnsSwapsEvent

SpecDecode == DecodeInit /\ [][DecodeNext]_vars

DecodeDone == decoded.status \in {"returned", "raised"}

\* The signature hashes of the events each fetcher says it decodes: Mint,
\* Burn and Swap, and for transactions.py also Flash and Collect.
DocumentedHashes ==
    { Keccak("Mint(address,address,int24,int24,uint128,uint256,uint256)"),
      Keccak("Burn(address,int24,int24,uint128,uint256,uint256)"),
      Keccak("Swap(address,address,int256,int256,uint160,uint128,int24)") }
    \cup IF dec_module = "transactions"
         THEN { Keccak("Flash(address,address,uint256,uint256,uint256,uint256)"),
                Keccak("Collect(address,address,int24,int24,uint128,uint128)") }
         ELSE {}

\* C11: transactions.py's decode_uniswap_event decodes a log whose topic0 is
\* the Keccak-256 hash of Collect(address,address,int24,int24,uint128,uint128)
\* as a COLLECT event.
C11_CollectDecoded ==
    ( /\ dec_module = "transactions"
      /\ DecodeDone
      /\ raw_event.topics[1] = Keccak("Collect(address,address,int24,int24,uint128,uint128)") )
    => /\ decoded.status = "returned"
       /\ decoded.event.method = "COLLECT"

\* C12: the decoded event of a BURN log carries the first payload value as
\* amount, the second as amount0 and the third as amount1.
C12_BurnAmounts ==
    ( /\ decoded.status = "returned"
      /\ decoded.event.method = "BURN" )
    => LET payload == abi_decode(<<"uint128", "uint256", "uint256">>, raw_event.data)
       IN  /\ decoded.event.amount = payload[1]
           /\ decoded.event.amount0 = payload[2]
           /\ decoded.event.amount1 = payload[3]

\* The hashes decode_uniswap_event compares topic0 with: three in
\* mints_burns_swaps.py, five in transactions.py.
KnownHashes ==
    IF dec_module = "transactions"
    THEN {mint_hash, burn_hash, swap_hash, flash_hash, collect_hash}
    ELSE {mint_hash, burn_hash, swap_hash}

\* C20: decode_uniswap_event raises, and returns no record, for every log
\* whose topic0 equals none of the signature hashes it knows.
C20_UnknownTopicRaises ==
    ( /\ DecodeDone
      /\ raw_event.topics[1] \notin KnownHashes )
    => /\ decoded.status = "raised"
       /\ "event" \notin DOMAIN decoded

\* C23: remove_address_padding applied to the 32-byte topic that left-pads
\* a 20-byte address with 12 zero bytes returns the 40 hex characters of
\* that address: the decoded owner, sender and recipient are the addresses
\* the log's topics encode.
C23_AddressRoundTrip ==
    decoded.status = "returned" =>
        \E o \in DecodeOwners :
            /\ decoded.event.method \in {"MINT", "BURN", "COLLECT"} =>
                  /\ raw_event.topics[2] = [i \in 1..24 |-> 0] \o Address(o)
                  /\ remove_address_padding(raw_event.topics[2]) = Address(o)
                  /\ decoded.event.owner = Address(o)
            /\ decoded.event.method \in {"SWAP", "FLASH"} =>
                  /\ raw_event.topics[2] = [i \in 1..24 |-> 0] \o Address(o + 1)
                  /\ raw_event.topics[3] = [i \in 1..24 |-> 0] \o Address(o)
                  /\ decoded.event.sender = Address(o + 1)
                  /\ decoded.event.recipient = Address(o)

\* A decoded MINT whose owner address has no leading zero byte.
C23_Witness ==
    /\ decoded.status = "returned"
    /\ decoded.event.method = "MINT"
    /\ decoded.event.owner = Address(2000000000)
    /\ decoded.event.owner[1] # 0

\* An Initialize log handed to transactions.py's decode_uniswap_event.
C20_Witness ==
    /\ dec_module = "transactions"
    /\ raw_event.topics[1] = Keccak("Initialize(uint160,int24)")
    /\ decoded.status = "raised"

(***************************************************************************)
(* The consumers of the decoded-events report: gas_estimates.py and        *)
(* relevant_positions.py.                                                  *)
(***************************************************************************)
RECURSIVE GCD(_, _)
GCD(a, b) == IF b = 0 THEN a ELSE GCD(b, a % b)

\* Python's true division of a non-negative int by a positive int, the
\* quotient kept exact as a fraction in lowest terms; an int n is n / 1.
TrueDiv(total, count) ==
    LET g == GCD(total, count)
    IN  [num |-> total \div g, den |-> count \div g]

\* The for loop of get_mint_burn_swap_gas_estimates: the gas sums (the *_av
\* variables before the division) and the counts after the given events.
RECURSIVE gas_totals(_)
gas_totals(events) ==
    IF Len(events) = 0
    THEN [ mint_av |-> 0, mint_count |-> 0, burn_av |-> 0, burn_count |-> 0,
           swap_av |-> 0, swap_count |-> 0, flash_av |-> 0, flash_count |-> 0,
           collect_av |-> 0, collect_count |-> 0 ]
    ELSE LET t     == gas_totals(SubSeq(events, 1, Len(events) - 1))
             event == events[Len(events)]
         IN  IF event.method = "MINT"
             THEN [t EXCEPT !.mint_av = @ + event.gasUsed, !.mint_count = @ + 1]
             ELSE IF event.method = "BURN"
             THEN [t EXCEPT !.burn_av = @ + event.gasUsed, !.burn_count = @ + 1]
             ELSE IF event.method = "SWAP"
             THEN [t EXCEPT !.swap_av = @ + event.gasUsed, !.swap_count = @ + 1]
             ELSE IF event.method = "FLASH"
             THEN [t EXCEPT !.flash_av = @ + event.gasUsed, !.flash_count = @ + 1]
             ELSE IF event.method = "COLLECT"
             THEN [t EXCEPT !.collect_av = @ + event.gasUsed, !.collect_count = @ + 1]
             ELSE t

\* Variant of gas_average that reports 0 for a kind that does not occur.
gas_average_zero(av, count) ==
    IF count # 0 THEN TrueDiv(av, count) ELSE [num |-> 0, den |-> 1]

\* if x_count != 0: x_av = x_av / x_count else: avs["xAv"] = -1
gas_average(av, count) ==
    IF count # 0 THEN TrueDiv(av, count) ELSE [num |-> -1, den |-> 1]

\* Variant of get_mint_burn_swap_gas_estimates that averages over all events.
gas_estimates_overall(events) ==
    LET t == gas_totals(events)
        n == Len(events)
    IN  [ mintAv    |-> gas_average(t.mint_av, IF t.mint_count # 0 THEN n ELSE 0),
          burnAv    |-> gas_average(t.burn_av, IF t.burn_count # 0 THEN n ELSE 0),
          swapAv    |-> gas_average(t.swap_av, IF t.swap_count # 0 THEN n ELSE 0),
          flashAv   |-> gas_average(t.flash_av, IF t.flash_count # 0 THEN n ELSE 0),
          collectAv |-> gas_average(t.collect_av, IF t.collect_count # 0 THEN n ELSE 0) ]

get_mint_burn_swap_gas_estimates(events) ==
    LET t == gas_totals(events)
    IN  [ mintAv    |-> gas_average(t.mint_av, t.mint_count),
          burnAv    |-> gas_average(t.burn_av, t.burn_count),
          swapAv    |-> gas_average(t.swap_av, t.swap_count),
          flashAv   |-> gas_average(t.flash_av, t.flash_count),
          collectAv |-> gas_average(t.collect_av, t.collect_count) ]

\* The loop of get_relevant_positions: the set of keys after the given
\* events; stop is "raise" once event["method_data"] is read from an event
\* that has no such field (KeyError) or a tick is no int24.
RECURSIVE relevant_positions_loop(_)
relevant_positions_loop(events) ==
    IF Len(events) = 0 THEN [stop |-> "run", positions |-> {}]
    ELSE LET p     == relevant_positions_loop(SubSeq(events, 1, Len(events) - 1))
             event == events[Len(events)]
         IN  IF p.stop = "raise" THEN p
             ELSE IF event.method \in {"MINT", "BURN"}
             THEN IF "method_data" \notin DOMAIN event
                  THEN [p EXCEPT !.stop = "raise"]
                  ELSE IF \/ ~is_int24(event.method_data.tickLower)
                          \/ ~is_int24(event.method_data.tickUpper)
                  THEN [p EXCEPT !.stop = "raise"]
                  ELSE [p EXCEPT !.positions =
                           @ \cup { position_key(event.method_data.owner,
                                                 event.method_data.tickLower,
                                                 event.method_data.tickUpper) }]
             ELSE p

\* get_relevant_positions: positions = set(); ...; return list(positions).
\* The order of the list is the set's iteration order, which the program
\* does not determine: any order of the keys is an outcome.
get_relevant_positions(events) ==
    LET p         == relevant_positions_loop(events)
        positions == p.positions
    IN  IF p.stop = "raise" THEN { [status |-> "raised"] }
        ELSE { [status |-> "returned", data |-> l] :
                 l \in { q \in [1..Cardinality(positions) -> positions] :
                           \A i, j \in DOMAIN q : q[i] = q[j] => i = j } }

(***************************************************************************)
(* SpecReport: one run of gas_estimates.py or relevant_positions.py on a   *)
(* decoded-events report.                                                  *)
(***************************************************************************)
MaxEvents == 3

GasUsedValues == {50000, 100000}

\* Decoded events of every kind, as transactions.py's decode_uniswap_event
\* builds them, with two gas amounts each.
GasEvents ==
    { decode_uniswap_event(PoolEventLog(topic0, 10, -60, 60, 7, 1, g)) :
        topic0 \in {mint_hash, burn_hash, swap_hash, flash_hash, collect_hash},
        g \in GasUsedValues }

\* Decoded events on the positions (10, -60, 60), (20, -60, 60) and
\* (10, 0, 120) and a swap, as decode_uniswap_event builds them.
FlatPositionEvents ==
    { decode_uniswap_event(PoolEventLog(mint_hash, 10, -60, 60, 7, 1, 100000)),
      decode_uniswap_event(PoolEventLog(mint_hash, 10, -60, 60, 500, 2, 50000)),
      decode_uniswap_event(PoolEventLog(mint_hash, 20, -60, 60, 7, 1, 100000)),
      decode_uniswap_event(PoolEventLog(burn_hash, 10, -60, 60, 7, 1, 100000)),
      decode_uniswap_event(PoolEventLog(burn_hash, 10, 0, 120, 7, 1, 100000)),
      decode_uniswap_event(PoolEventLog(swap_hash, 10, -60, 60, 7, 1, 100000)),
      decode_uniswap_event(PoolEventLog(collect_hash, 10, 60, 120, 7, 1, 100000)) }

HeaderFields == {"blockNo", "timestamp", "gasPrice", "gasUsed", "gasTotal", "method"}

\* The shape get_relevant_positions reads: the method's fields under
\* "method_data" instead of beside the header fields.
Nested(event) ==
    [f \in HeaderFields |-> event[f]]
        @@ [method_data |-> [f \in DOMAIN event \ HeaderFields |-> event[f]]]

NestedPositionEvents == { Nested(event) : event \in FlatPositionEvents }

EventLists(S) == UNION { [1..n -> S] : n \in 0..MaxEvents }

ReportInit ==
    /\ consumer \in {"gas_estimates", "relevant_positions"}
    /\ IF consumer = "gas_estimates"
       THEN decoded_events \in EventLists(GasEvents)
       ELSE decoded_events \in EventLists(FlatPositionEvents)
                                   \cup EventLists(NestedPositionEvents)
    /\ report_out = [status |-> "pending"]
    /\ TickIdle
    /\ LiqIdle
    /\ FetchIdle
    /\ DecodeIdle
    /\ CliIdle

\* gas_estimates.py main: get_mint_burn_swap_gas_estimates(decoded_events["data"]).
GetGasEstimates ==
    /\ consumer = "gas_estimates"
    /\ report_out.status = "pending"
    /\ report_out' = [status |-> "returned",
                      data   |-> get_mint_burn_swap_gas_estimates(decoded_events)]
    /\ UNCHANGED <<consumer, decoded_events>>
    /\ UNCHANGED tick_vars
    /\ UNCHANGED liq_vars
    /\ UNCHANGED fetch_vars
    /\ UNCHANGED decode_vars
    /\ UNCHANGED cli_vars

\* relevant_positions.py main: get_relevant_positions(decoded_events["data"]).
GetRelevantPositions ==
    /\ consumer = "relevant_positions"
    /\ report_out.status = "pending"
    /\ report_out' \in get_relevant_positions(decoded_events)
    /\ UNCHANGED <<consumer, decoded_events>>
    /\ UNCHANGED tick_vars
    /\ UNCHANGED liq_vars
    /\ UNCHANGED fetch_vars
    /\ UNCHANGED decode_vars
    /\ UNCHANGED cli_vars

ReportNext == GetGasEstimates \/ GetRelevantPositions

SpecReport == ReportInit /\ [][ReportNext]_vars

GasDone == consumer = "gas_estimates" /\ report_out.status # "pending"

PositionsDone == consumer = "relevant_positions" /\ report_out.status # "pending"

\* The positions of the input's events of the given kind.
EventsOf(kind) == { i \in DOMAIN decoded_events : decoded_events[i].method = kind }

\* The sum of gasUsed over a set of positions of the input.
RECURSIVE SumGasUsed(_)
SumGasUsed(I) ==
    IF I = {} THEN 0
    ELSE LET i == CHOOSE x \in I : TRUE
         IN  decoded_events[i].gasUsed + SumGasUsed(I \ {i})

GasKinds == { <<"MINT", "mintAv">>, <<"BURN", "burnAv">>, <<"SWAP", "swapAv">>,
              <<"FLASH", "flashAv">>, <<"COLLECT", "collectAv">> }

\* C13: get_mint_burn_swap_gas_estimates returns, and reports -1 for each of
\* mintAv, burnAv, swapAv, flashAv and collectAv whose kind does not occur
\* in the input; on the empty sequence all five are -1.
C13_AbsentKindMinusOne ==
    GasDone =>
        /\ report_out.status = "returned"
        /\ DOMAIN report_out.data = { k[2] : k \in GasKinds }
        /\ \A k \in GasKinds :
             EventsOf(k[1]) = {} => report_out.data[k[2]] = [num |-> -1, den |-> 1]

\* An input with swaps only.
C13_Witness ==
    /\ GasDone
    /\ decoded_events # <<>>
    /\ EventsOf("SWAP") = DOMAIN decoded_events
    /\ report_out.data.mintAv = [num |-> -1, den |-> 1]
    /\ report_out.data.swapAv # [num |-> -1, den |-> 1]

\* C14: for each kind occurring at least once, the reported average is the
\* sum of gasUsed over exactly the events of that kind divided by their
\* number.
C14_AverageOfKind ==
    GasDone =>
        \A k \in GasKinds :
            EventsOf(k[1]) # {} =>
                /\ report_out.data[k[2]].den > 0
                /\ report_out.data[k[2]].num * Cardinality(EventsOf(k[1]))
                     = SumGasUsed(EventsOf(k[1])) * report_out.data[k[2]].den

\* One MINT with gasUsed 100000 and one SWAP with gasUsed 50000.
C14_Witness ==
    /\ GasDone
    /\ Len(decoded_events) = 2
    /\ decoded_events[1].method = "MINT" /\ decoded_events[1].gasUsed = 100000
    /\ decoded_events[2].method = "SWAP" /\ decoded_events[2].gasUsed = 50000
    /\ report_out.data.mintAv = [num |-> 100000, den |-> 1]
    /\ report_out.data.swapAv = [num |-> 50000, den |-> 1]

\* The (owner, tickLower, tickUpper) triple of a MINT or BURN event, in
\* either shape.
PositionTriple(event) ==
    IF "method_data" \in DOMAIN event
    THEN <<event.method_data.owner, event.method_data.tickLower, event.method_data.tickUpper>>
    ELSE <<event.owner, event.tickLower, event.tickUpper>>

\* The triples of the input's MINT and BURN events.
InputTriples ==
    { PositionTriple(decoded_events[i]) : i \in EventsOf("MINT") \cup EventsOf("BURN") }

\* C15: get_relevant_positions returns a list without repeated keys holding
\* exactly one key per distinct (owner, tickLower, tickUpper) triple among
\* the MINT and BURN events of its input.
C15_OneKeyPerTriple ==
    PositionsDone =>
        /\ report_out.status = "returned"
        /\ \A i, j \in DOMAIN report_out.data :
             report_out.data[i] = report_out.data[j] => i = j
        /\ { report_out.data[i] : i \in DOMAIN report_out.data }
             = { position_key(t[1], t[2], t[3]) : t \in InputTriples }
        /\ Len(report_out.data) = Cardinality(InputTriples)

\* C16: for every MINT or BURN event in the flat shape decode_uniswap_event
\* builds, get_relevant_positions reads its fields and produces its key
\* without raising.
C16_FlatShapeAccepted ==
    ( /\ PositionsDone
      /\ \A i \in DOMAIN decoded_events : decoded_events[i] \in FlatPositionEvents )
    => /\ report_out.status = "returned"
       /\ \A i \in EventsOf("MINT") \cup EventsOf("BURN") :
            \E j \in DOMAIN report_out.data :
               report_out.data[j] = position_key(decoded_events[i].owner,
                                                 decoded_events[i].tickLower,
                                                 decoded_events[i].tickUpper)

\* What holds of get_relevant_positions on events in the nested shape.
NestedInputKeys ==
    ( /\ PositionsDone
      /\ \A i \in DOMAIN decoded_events : decoded_events[i] \in NestedPositionEvents )
    => /\ report_out.status = "returned"
       /\ { report_out.data[i] : i \in DOMAIN report_out.data }
            = { position_key(t[1], t[2], t[3]) : t \in InputTriples }
       /\ Len(report_out.data) = Cardinality(InputTriples)

(***************************************************************************)
(* SpecFetch: one run of transactions.py or mints_burns_swaps.py against   *)
(* an explorer holding finitely many logs.                                 *)
(***************************************************************************)
MaxRequests == 5

PageCounts == 0..2
PageLens == 1..2

\* The events of the logs the explorer holds: two that both fetchers
\* decode, one that only transactions.py lists, one that neither lists.
FetchedTopics ==
    { Keccak("Mint(address,address,int24,int24,uint128,uint256,uint256)"),
      Keccak("Swap(address,address,int256,int256,uint160,uint128,int24)"),
      Keccak("Flash(address,address,uint256,uint256,uint256,uint256)"),
      Keccak("Collect(address,address,int24,int24,uint128,uint128)") }

\* The topic0 sequences of one non-empty page.
PageTopics == UNION { [1..n -> FetchedTopics] : n \in PageLens }

\* Number of logs on the pages before page pg.
RECURSIVE LogsBefore(_, _)
LogsBefore(tp, pg) ==
    IF pg <= 1 THEN 0 ELSE LogsBefore(tp, pg - 1) + Len(tp[pg - 1])

\* The explorer's pages for the topic0 sequences tp: the n-th log of the
\* range lies in block n, blockNumber being its hex string.
ServedPages(tp) ==
    [pg \in 1..Len(tp) |->
        [i \in 1..Len(tp[pg]) |-> PoolLog(tp[pg][i], LogsBefore(tp, pg) + i)]]

FetchInit ==
    /\ variant \in {"transactions", "mints_burns_swaps"}
    /\ \E k \in PageCounts : \E tp \in [1..k -> PageTopics] :
         \E msg \in {"OK", "NOTOK"} : \E end_msg \in {"OK", "NOTOK"} :
         \E sig \in {"null", "empty", "error"} :
            explorer = [block_message |-> msg, end_block_message |-> end_msg,
                        pages |-> ServedPages(tp), end_signal |-> sig]
    /\ fetch_pc = "start"
    /\ page = 1
    /\ requested = <<>>
    /\ logs = <<>>
    /\ fetch_out = <<>>
    /\ TickIdle
    /\ LiqIdle
    /\ DecodeIdle
    /\ ReportIdle
    /\ CliIdle

\* start_block / end_block = get_block_no_by_time(...): an exception leaves
\* fetch_uniswap_transactions_in_range before any log is requested.
ResolveBlocks ==
    /\ fetch_pc = "start"
    /\ fetch_pc' = IF get_block_no_by_time(explorer, "after") = "raise" THEN "raised"
                   ELSE IF get_block_no_by_time(explorer, "before") = "raise" THEN "raised"
                   ELSE "logs"
    /\ UNCHANGED <<variant, explorer, page, requested, logs, fetch_out>>
    /\ UNCHANGED tick_vars
    /\ UNCHANGED liq_vars
    /\ UNCHANGED decode_vars
    /\ UNCHANGED report_vars
    /\ UNCHANGED cli_vars

\* transactions.py: one iteration of "while new_results"; on a None response
\* the loop is left, the logs are decoded and the function returns.
RequestPage ==
    /\ variant = "transactions"
    /\ fetch_pc = "logs"
    /\ page <= MaxRequests
    /\ LET response == get_pool_logs(explorer, page)
       IN  /\ requested' = Append(requested, page)
           /\ IF response.kind = "raise"
              THEN /\ fetch_pc' = "raised"
                   /\ UNCHANGED <<page, logs, fetch_out>>
              ELSE IF response.kind = "null"
              THEN /\ fetch_out' = decode_transactions(logs)
                   /\ fetch_pc' = IF DecodeRaised(decode_transactions(logs))
                                  THEN "raised" ELSE "returned"
                   /\ UNCHANGED <<page, logs>>
              ELSE /\ logs' = logs \o response.logs
                   /\ page' = page + 1
                   /\ UNCHANGED <<fetch_pc, fetch_out>>
    /\ UNCHANGED <<variant, explorer>>
    /\ UNCHANGED tick_vars
    /\ UNCHANGED liq_vars
    /\ UNCHANGED decode_vars
    /\ UNCHANGED report_vars
    /\ UNCHANGED cli_vars

\* mints_burns_swaps.py: logs = get_pool_logs(...) for page 1 only, then the
\* decoding loop; iterating over a None result raises.
FetchSinglePage ==
    /\ variant = "mints_burns_swaps"
    /\ fetch_pc = "logs"
    /\ LET response == get_pool_logs(explorer, 1)
       IN  /\ requested' = Append(requested, 1)
           /\ IF response.kind \in {"raise", "null"}
              THEN /\ fetch_pc' = "raised"
                   /\ UNCHANGED <<logs, fetch_out>>
              ELSE /\ logs' = response.logs
                   /\ fetch_out' = mbs_decode_transactions(response.logs)
                   /\ fetch_pc' = IF DecodeRaised(mbs_decode_transactions(response.logs))
                                  THEN "raised" ELSE "returned"
    /\ UNCHANGED <<variant, explorer, page>>
    /\ UNCHANGED tick_vars
    /\ UNCHANGED liq_vars
    /\ UNCHANGED decode_vars
    /\ UNCHANGED report_vars
    /\ UNCHANGED cli_vars

FetchNext == ResolveBlocks \/ RequestPage \/ FetchSinglePage

SpecFetch == FetchInit /\ [][FetchNext]_vars

\* Explorers for the runs followed to their end: up to two pages of one log
\* each, a Mint or a Collect.
FairPageTopics ==
    { <<Keccak("Mint(address,address,int24,int24,uint128,uint256,uint256)")>>,
      <<Keccak("Collect(address,address,int24,int24,uint128,uint128)")>> }

FetchFairInit ==
    /\ variant \in {"transactions", "mints_burns_swaps"}
    /\ \E k \in PageCounts : \E tp \in [1..k -> FairPageTopics] :
         \E msg \in {"OK", "NOTOK"} : \E sig \in {"null", "empty", "error"} :
            explorer = [block_message |-> msg, end_block_message |-> "OK",
                        pages |-> ServedPages(tp), end_signal |-> sig]
    /\ fetch_pc = "start"
    /\ page = 1
    /\ requested = <<>>
    /\ logs = <<>>
    /\ fetch_out = <<>>
    /\ TickIdle
    /\ LiqIdle
    /\ DecodeIdle
    /\ ReportIdle
    /\ CliIdle

\* The enabling condition of the page requests: the guards of RequestPage and
\* of FetchSinglePage.
PageRequestEnabled ==
    /\ fetch_pc = "logs"
    /\ \/ variant = "mints_burns_swaps"
       \/ variant = "transactions" /\ page <= MaxRequests

\* Weak fairness of the page requests, written out with PageRequestEnabled as
\* its enabling condition: every page request changes requested, so the
\* condition is ENABLED <<RequestPage \/ FetchSinglePage>>_vars.
PageRequestFairness ==
    \/ []<>(~PageRequestEnabled)
    \/ []<><<RequestPage \/ FetchSinglePage>>_vars

\* The fetcher is a sequential program that keeps running: a step that is
\* possible is eventually taken.
SpecFetchFair ==
    FetchFairInit /\ [][FetchNext]_vars /\ WF_vars(ResolveBlocks) /\ PageRequestFairness

\* All logs the explorer holds, in page order.
RECURSIVE ServedLogs(_, _)
ServedLogs(pages, n) ==
    IF n = 0 THEN <<>> ELSE ServedLogs(pages, n - 1) \o pages[n]

\* The hashes each fetcher's filter lists.
RecognizedHashes ==
    IF variant = "transactions"
    THEN {mint_hash, burn_hash, swap_hash, flash_hash, collect_hash}
    ELSE {mint_hash, burn_hash, swap_hash}

KindOfHash(h) ==
    CASE h = mint_hash -> "MINT"
      [] h = burn_hash -> "BURN"
      [] h = swap_hash -> "SWAP"
      [] h = flash_hash -> "FLASH"
      [] h = collect_hash -> "COLLECT"
      [] OTHER -> "NONE"

\* events holds exactly one event per log of ls with a recognized topic0, in
\* the order of ls, each with the log's block number and kind.
DecodedInOrder(ls, events) ==
    LET P == { i \in 1..Len(ls) : ls[i].topics[1] \in RecognizedHashes }
        rank(i) == Cardinality({ j \in P : j <= i })
    IN  /\ Len(events) = Cardinality(P)
        /\ \A i \in P :
              /\ events[rank(i)].blockNo = HexToInt(ls[i].blockNumber)
              /\ events[rank(i)].method = KindOfHash(ls[i].topics[1])

\* C9: with k non-empty pages followed by a page with no entries,
\* transactions.py requests pages 1..k+1 in order and no more, does not fail
\* because of the final page, and returns exactly the decoded recognized
\* logs of pages 1..k in page order.
C9_Pagination ==
    ( /\ variant = "transactions"
      /\ explorer.block_message = "OK"
      /\ explorer.end_block_message = "OK" ) =>
        /\ fetch_pc # "raised"
        /\ Len(requested) <= Len(explorer.pages) + 1
        /\ \A i \in 1..Len(requested) : requested[i] = i
        /\ fetch_pc = "returned" =>
              /\ Len(requested) = Len(explorer.pages) + 1
              /\ DecodedInOrder(ServedLogs(explorer.pages, Len(explorer.pages)),
                                fetch_out)

\* C10: the returned sequence holds one DecodedEvent per fetched log whose
\* topic0 is one of the recognized hashes, none for any other log, in the
\* explorer's order.
C10_FilterInOrder ==
    fetch_pc = "returned" => DecodedInOrder(logs, fetch_out)

\* transactions.py returned for an explorer that served an unrecognized log,
\* a MINT log and a SWAP log, in that order.
C10_Witness ==
    /\ fetch_pc = "returned"
    /\ variant = "transactions"
    /\ Len(logs) = 3
    /\ logs[1].topics[1] \notin RecognizedHashes
    /\ logs[2].topics[1] = mint_hash
    /\ logs[3].topics[1] = swap_hash
    /\ Len(fetch_out) = 2
    /\ fetch_out[1].method = "MINT"
    /\ fetch_out[2].method = "SWAP"

\* The logs of the requested pages that the explorer answered with message
\* "OK" and a list.
RECURSIVE ResultsOf(_)
ResultsOf(pages_requested) ==
    IF Len(pages_requested) = 0 THEN <<>>
    ELSE LET response == ExplorerLogsResponse(explorer, pages_requested[Len(pages_requested)])
         IN  ResultsOf(SubSeq(pages_requested, 1, Len(pages_requested) - 1))
                \o (IF response.message = "OK" THEN response.result.logs ELSE <<>>)

\* C21: a non-OK message in the response to either block resolution aborts
\* the fetch before any log page is requested; get_pool_logs raises on a
\* non-OK message and hands back the response's result otherwise.
C21_NonOkRaises ==
    /\ ( /\ fetch_pc # "start"
         /\ \/ explorer.block_message # "OK"
            \/ explorer.end_block_message # "OK" )
       => /\ fetch_pc = "raised"
          /\ requested = <<>>
          /\ logs = <<>>
    /\ \A i \in DOMAIN requested :
          ExplorerLogsResponse(explorer, requested[i]).message # "OK"
             => /\ i = Len(requested)
                /\ fetch_pc = "raised"
    /\ logs = ResultsOf(requested)

\* The start block resolved, the end block did not.
C21_Witness ==
    /\ explorer.block_message = "OK"
    /\ explorer.end_block_message = "NOTOK"
    /\ Len(explorer.pages) > 0
    /\ fetch_pc = "raised"
    /\ requested = <<>>

C27_OneRequestPastTheEnd == Len(requested) <= Len(explorer.pages) + 1

\* The runs that end: those of explorers that signal the end by an absent
\* result or by a non-"OK" message.
C27_TerminatesUnlessEmpty ==
    (explorer.end_signal # "empty") => <>(fetch_pc \in {"returned", "raised"})

(***************************************************************************)
(* SpecCli: the entry points.  Every main() is                             *)
(*     try: args = parse_args(); <read, compute>; print(<report>)          *)
(*     except Exception as ex: print(ex, file=sys.stderr); sys.exit(1)     *)
(* run under "if __name__ == '__main__'" after the module's imports.       *)
(***************************************************************************)
MaxFiles == 2

CliTools == {"gas_estimates", "transactions", "mints_burns_swaps", "relevant_positions",
             "pool_state", "plot_liquidity", "combine_decoded_events"}

\* The data lists a report file of the folder may hold.
FileData == {<<>>, <<"e1">>, <<"e2", "e1">>}

Folders == UNION { [1..n -> FileData] : n \in 0..MaxFiles }

\* The module-level imports: pool_state.py imports get_contract_abi from
\* utils.etherscan_requests, which defines get_block_no_by_time and
\* get_pool_logs only.  combine_decoded_events.py imports nothing.
imports_resolve(script) == script # "pool_state"

\* The names a script's main() and parse_args() use that the module binds:
\* combine_decoded_events.py binds neither ArgumentParser nor json nor sys nor
\* get_relevant_addresses.
binds_names(script) == script # "combine_decoded_events"

\* ArgumentParser.parse_args(): on a command line it cannot accept it prints
\* the usage and the error to standard error and calls sys.exit(2).
\* SystemExit is not an Exception.
argparse_exits(argv) == argv # "valid"

\* One report document on standard output.
Report(data) == [data |-> data]

CliInit ==
    /\ cli_tool \in CliTools
    /\ cli_argv \in {"valid", "missing", "unrecognized"}
    /\ cli_fault \in {"none", "io", "processing"}
    /\ cli_folder \in (IF cli_tool = "combine_decoded_events" THEN Folders ELSE {<<>>})
    /\ cli_pc = "start"
    /\ cli_exception = <<>>
    /\ stdout = <<>>
    /\ stderr = <<>>
    /\ exit_status = 0
    /\ TickIdle
    /\ LiqIdle
    /\ FetchIdle
    /\ DecodeIdle
    /\ ReportIdle

\* The interpreter runs the module's top level; an exception there is not
\* inside any try: traceback on standard error, exit status 1.
CliImport ==
    /\ cli_pc = "start"
    /\ IF imports_resolve(cli_tool)
       THEN /\ cli_pc' = "main"
            /\ UNCHANGED <<stderr, exit_status>>
       ELSE /\ cli_pc' = "exited"
            /\ stderr' = <<"traceback">>
            /\ exit_status' = 1
    /\ UNCHANGED <<cli_tool, cli_argv, cli_fault, cli_folder, cli_exception, stdout>>
    /\ UNCHANGED tick_vars
    /\ UNCHANGED liq_vars
    /\ UNCHANGED fetch_vars
    /\ UNCHANGED decode_vars
    /\ UNCHANGED report_vars

\* args = parse_args(), the first statement of the try block.
CliParseArgs ==
    /\ cli_pc = "main"
    /\ IF ~binds_names(cli_tool)
       THEN /\ cli_pc' = "handler"
            /\ cli_exception' = <<"NameError">>
            /\ UNCHANGED <<stderr, exit_status>>
       ELSE IF argparse_exits(cli_argv)
       THEN /\ cli_pc' = "exited"
            /\ stderr' = <<"usage">>
            /\ exit_status' = 2
            /\ UNCHANGED cli_exception
       ELSE /\ cli_pc' = "parsed"
            /\ UNCHANGED <<cli_exception, stderr, exit_status>>
    /\ UNCHANGED <<cli_tool, cli_argv, cli_fault, cli_folder, stdout>>
    /\ UNCHANGED tick_vars
    /\ UNCHANGED liq_vars
    /\ UNCHANGED fetch_vars
    /\ UNCHANGED decode_vars
    /\ UNCHANGED report_vars

\* The rest of the try block: reading the input, the computation, and the
\* print of the report as its last statement.
CliProcess ==
    /\ cli_pc = "parsed"
    /\ IF ~binds_names(cli_tool)
       THEN /\ cli_pc' = "handler"
            /\ cli_exception' = <<"NameError">>
            /\ UNCHANGED <<stdout, exit_status>>
       ELSE IF cli_fault # "none"
       THEN /\ cli_pc' = "handler"
            /\ cli_exception' = <<"Exception">>
            /\ UNCHANGED <<stdout, exit_status>>
       ELSE /\ cli_pc' = "exited"
            /\ stdout' = <<Report(<<>>)>>
            /\ exit_status' = 0
            /\ UNCHANGED cli_exception
    /\ UNCHANGED <<cli_tool, cli_argv, cli_fault, cli_folder, stderr>>
    /\ UNCHANGED tick_vars
    /\ UNCHANGED liq_vars
    /\ UNCHANGED fetch_vars
    /\ UNCHANGED decode_vars
    /\ UNCHANGED report_vars

\* except Exception as ex: print(ex, file=sys.stderr); sys.exit(1).  Where sys
\* is not bound the print raises NameError inside the handler: traceback on
\* standard error, exit status 1.
CliHandler ==
    /\ cli_pc = "handler"
    /\ cli_pc' = "exited"
    /\ stderr' = IF binds_names(cli_tool) THEN <<"message">> ELSE <<"traceback">>
    /\ exit_status' = 1
    /\ UNCHANGED <<cli_tool, cli_argv, cli_fault, cli_folder, cli_exception, stdout>>
    /\ UNCHANGED tick_vars
    /\ UNCHANGED liq_vars
    /\ UNCHANGED fetch_vars
    /\ UNCHANGED decode_vars
    /\ UNCHANGED report_vars

CliNext == CliImport \/ CliParseArgs \/ CliProcess \/ CliHandler

SpecCli == CliInit /\ [][CliNext]_vars

\* C22: a process that met an error in its arguments, its I/O or its
\* processing has written to standard error, nothing to standard output and
\* exited with status 1; a report is on standard output only when nothing
\* failed.
C22_ErrorsExitOne ==
    cli_pc = "exited" =>
        /\ (cli_argv # "valid" \/ cli_fault # "none")
              => /\ stderr # <<>>
                 /\ stdout = <<>>
                 /\ exit_status = 1
        /\ stdout # <<>> => (cli_argv = "valid" /\ cli_fault = "none")

\* The events of the folder's files, files in filename order, events in file
\* order.
RECURSIVE Concatenation(_)
Concatenation(files) ==
    IF Len(files) = 0 THEN <<>>
    ELSE Concatenation(SubSeq(files, 1, Len(files) - 1)) \o files[Len(files)]

\* C25: the combiner, run on a folder of readable report files, has written
\* one report whose data is the concatenation of the files' data.
C25_CombinerConcatenates ==
    ( /\ cli_tool = "combine_decoded_events"
      /\ cli_pc = "exited"
      /\ cli_argv = "valid"
      /\ cli_fault = "none" )
       => /\ stdout = <<Report(Concatenation(cli_folder))>>
          /\ exit_status = 0

====
